---- MODULE Spec2Model ----
(***************************************************************************)
(* Model of the power curtailment scheduler of se_test_cases:              *)
(* PowerCurtailmentConfig (src/src/power_curtailment/config.py) and        *)
(* PowerCurtailmentActor  (src/src/power_curtailment/power_curtailment.py).*)
(*                                                                         *)
(* Time is counted in minutes; a day is scaled down to DayLen minutes and  *)
(* a slot to SlotLen minutes.  Backoff and run_frequency are durations in  *)
(* seconds; the code never adds them to the wall clock.                    *)
(*                                                                         *)
(* TcControlLogic and TruckChargingActor (src/src/app/ev_charging_main.py) *)
(* are modelled next to it: powers and states of charge are whole numbers. *)
(* So is read_modbus_register (src/src/app/run_tests.py).                  *)
(***************************************************************************)
EXTENDS Integers, Sequences, FiniteSets, TLC

\* ------------------------------------------------------------------ bounds
MaxNow == 3              \* the wall clock runs from 0 to MaxNow minutes
SlotLen == 3             \* da_price_frequency, in minutes
DayLen == 3              \* length of a (scaled) day, in minutes
MaxRetries == 2          \* retries of the scheduling loop's configurations
MaxMicrogrids == 2       \* longest microgrid_ids list
PriceLimit == 2          \* price_limit
CfgMaxRetries == 4       \* retries offered to the configuration check
CfgMaxBackoff == 2       \* initial_backoff offered to the configuration check
CfgMaxRunFrequency == 16 \* run_frequency offered to the configuration check
TimedeltaMax == 24       \* largest duration a timedelta holds (scaled down
                         \* from 999999999 days)

\* ------------------------------------------------------- program constants
WindowDays == 2          \* pd.Timedelta(days=2)
FetchPadMinutes == 1     \* pd.Timedelta(minutes=1)

Prices == (PriceLimit - 1) .. (PriceLimit + 1)

MaxMissed == 2           \* timer periods that may end during one cycle

MaxPower == 2            \* powers offered to perform: -MaxPower .. MaxPower
MaxSoc == 2              \* states of charge offered to perform: 0 .. MaxSoc
MaxTarget == 1           \* target powers of a Config: 0 .. MaxTarget

MaxReads == 4            \* reads of the Modbus register in one run
MaxRegister == 2         \* register values: 0 .. MaxRegister

\* a shorter da_price_frequency, which puts three slots into the window
DenseSlotLen == SlotLen - 1

VARIABLES
    cfg,            \* the PowerCurtailmentConfig handed to the actor
    pc,             \* where the actor's _run coroutine is
    now,            \* the wall clock (pd.Timestamp.now)
    active,         \* _active_contracts: an insertion-ordered dict
    attempt,        \* local attempt of _process_contracts_with_retries
    backoff,        \* local backoff of _process_contracts_with_retries
    unprocessed,    \* local unprocessed_contracts
    start_time,     \* local start_time of the last fetch
    end_time,       \* local end_time of the last fetch
    da_prices,      \* the fetched price series (slot start -> price)
    idx,            \* position of _process_available_prices in contracts
    mgi,            \* position of _send_dispatch in microgrid_ids
    success_count,  \* local success_count of _send_dispatch
    outcome,        \* how the last cycle ended
    fetches,        \* history: fetch calls of this cycle
    results,        \* history: what each fetch call of this cycle came to
    sleeps,         \* history: asyncio.sleep durations of this cycle
    sends,          \* history: _send_dispatch calls of this cycle, with result
    creates,        \* history: dispatch create calls of this cycle
    active0,        \* history: _active_contracts at the start of the retry loop
    accepted,       \* history: (slot, site) pairs whose create call succeeded
                    \*          in an earlier cycle, for the slots still tracked
    due,            \* ticks the Timer holds ready for the `async for` loop
    missed,         \* history: timer periods that ended during this cycle
    overlapped,     \* history: a cycle started while another was in progress
    healthy,        \* the price source and the dispatch service have stopped
                    \* failing, for good
    client,         \* self._client: the number of the client object, counted
                    \* from the one the cycle started with
    used,           \* history: the client each fetch of this cycle went to
    failed_before,  \* history: a fetch of an earlier cycle raised
    tr,             \* TruckChargingActor: its fields, the locals of _run and
                    \* where _run is
    mb,             \* read_modbus_register: its locals, and the history of
                    \* its reads and of the values it sent
    tc              \* one call of TcControlLogic.perform: the object's
                    \* fields, the arguments, where the coroutine is and the
                    \* propose_power calls it has made on each pool

vars == <<cfg, pc, now, active, attempt, backoff, unprocessed, start_time,
          end_time, da_prices, idx, mgi, success_count, outcome, fetches,
          results, sleeps, sends, creates, active0, accepted, due, missed,
                   overlapped, healthy, tc,
                   client, used, failed_before,
                   tr, mb>>

\* ----------------------------------------------------------------- helpers
RECURSIVE Pow2(_)
Pow2(n) == IF n <= 0 THEN 1 ELSE 2 * Pow2(n - 1)

RECURSIVE SumSeq(_)
SumSeq(s) == IF s = <<>> THEN 0 ELSE Head(s) + SumSeq(Tail(s))

SetMin(S) == CHOOSE x \in S : \A y \in S : x <= y
SetMax(S) == CHOOSE x \in S : \A y \in S : x >= y
Range(s) == {s[i] : i \in DOMAIN s}

\* every order in which a set can be iterated
Orderings(S) ==
    {s \in [1 .. Cardinality(S) -> S] :
        \A i, j \in 1 .. Cardinality(S) : i # j => s[i] # s[j]}

\* microgrid_ids of length n (ids in descending order: list order # id order)
MicrogridIds(n) == [i \in 1 .. n |-> n + 1 - i]

\* ------------------------------------------------------------------ config
\* retry_window = initial_backoff * (2**retries - 1)
\* (variant: a window that grows linearly with retries)
RetryWindow_linear(c) == c.initial_backoff * c.retries
RetryWindow(c) == c.initial_backoff * (Pow2(c.retries) - 1)

\* timedelta.__mul__ raises OverflowError for a product beyond timedelta.max
TimedeltaOverflows(d) == d > TimedeltaMax

\* if retry_window >= self.run_frequency: raise ValueError
InvalidSchedule(c) == RetryWindow(c) >= c.run_frequency

Config(r, b, f, n) ==
    [retries |-> r, initial_backoff |-> b, run_frequency |-> f,
     microgrid_ids |-> MicrogridIds(n), price_limit |-> PriceLimit,
     da_price_frequency |-> SlotLen]

\* ------------------------------------------------------- _active_contracts
Keys(d) == {d[i].ts : i \in DOMAIN d}
Flag(d, t) == \E i \in DOMAIN d : d[i].ts = t /\ d[i].processed
Entry(t, b) == [ts |-> t, processed |-> b]
SetItem(d, t, b) ==
    IF t \in Keys(d)
    THEN [i \in DOMAIN d |-> IF d[i].ts = t THEN Entry(t, b) ELSE d[i]]
    ELSE Append(d, Entry(t, b))
\* variant: keys are never deleted
DelKeys_none(d, S) == d

DelKeys(d, S) == SelectSeq(d, LAMBDA e : e.ts \notin S)

\* for ts in order: d[ts] = False
RECURSIVE SetAllFalse(_, _)
SetAllFalse(d, order) ==
    IF order = <<>> THEN d
    ELSE SetAllFalse(SetItem(d, Head(order), FALSE), Tail(order))

Ceil(t, f) == ((t + f - 1) \div f) * f
\* variant: the window end is not moved back to midnight
Normalize_asIs(t) == t

Normalize(t) == (t \div DayLen) * DayLen

DateRangeLeft(start, end, freq) ==
    {t \in start .. (end - 1) : (t - start) % freq = 0}

CurrentContracts(t) ==
    DateRangeLeft(Ceil(t, cfg.da_price_frequency),
                  Normalize(t + WindowDays * DayLen), cfg.da_price_frequency)

\* existing_set - current_set
RemovedKeys(existing_set, current_set) == existing_set \ current_set

\* current_set - existing_set
\* (variant: every current key is set to False, tracked or not)
AddedKeys_all(existing_set, current_set) == current_set

AddedKeys(existing_set, current_set) == current_set \ existing_set

\* update_contracts: the dicts it can leave behind (the added keys are
\* set in the iteration order of a set, which is not specified)
UpdateContracts(d, t) ==
    LET current_set == CurrentContracts(t)
        existing_set == Keys(d)
        kept == DelKeys(d, RemovedKeys(existing_set, current_set))
    IN {SetAllFalse(kept, o) :
            o \in Orderings(AddedKeys(existing_set, current_set))}

\* _get_unprocessed_contracts, in dict order
\* (variant: the filter on the flag is missing)
GetUnprocessed_all(d) == [i \in DOMAIN d |-> d[i].ts]
GetUnprocessed(d) ==
    LET f == SelectSeq(d, LAMBDA e : ~e.processed)
    IN [i \in DOMAIN f |-> f[i].ts]

\* ------------------------------------------------- decisions of the cycle
\* while attempt < self._config.retries
RetriesLeft(att) == att < cfg.retries

\* if attempt < self._config.retries: sleep
\* (variant: sleeps after the last attempt too)
ShouldSleep_always(att) == TRUE
ShouldSleep(att) == att < cfg.retries

\* backoff *= 2
NextBackoff(b) == b * 2

\* if price > self._config.price_limit
\* (variant: a price equal to the limit dispatches)
AboveLimit_ge(price) == price >= cfg.price_limit
AboveLimit(price) == price > cfg.price_limit

\* return success_count == len(self._config.microgrid_ids)
\* (variant: one successful site is enough)
DispatchSuccess_any(count) == count > 0 \/ cfg.microgrid_ids = <<>>
DispatchSuccess(count) == count = Len(cfg.microgrid_ids)

\* the next position of `for microgrid_id in ...`: the except clause inside
\* the loop swallows a failed create call
\* (variant: the first failure ends the loop)
AfterCreate_abort(i, ok) == IF ok THEN i + 1 ELSE Len(cfg.microgrid_ids) + 1
AfterCreate(i, ok) == i + 1

\* whether a contract that has a price reaches
\* `self._active_contracts[timestamp] = True`
\* (variants: the `continue` after a failed dispatch is missing; only
\* dispatched contracts are marked)
MarksProcessed_always(above, success) == TRUE
MarksProcessed_onlyDispatched(above, success) == above /\ success
MarksProcessed(above, success) == ~above \/ success

\* a contract whose timestamp is not in da_prices.index: the assignment of
\* True lies inside the `if timestamp in da_prices.index`
\* (variant: the assignment lies after the if)
MarksWithoutPrice_always == TRUE
MarksWithoutPrice == FALSE

\* _active_contracts after the except branch of the retry loop, which counts
\* the attempt, logs and sleeps
\* (variant: the last failed attempt marks the batch processed)
ContractsAfterFetchError_giveUp(d, att) ==
    IF att < cfg.retries THEN d
    ELSE [i \in DOMAIN d |-> Entry(d[i].ts, TRUE)]
ContractsAfterFetchError(d, att) == d

\* -------------------------------------------------------------- the cycle
Unbound == <<-1>>        \* a local variable that was never assigned
NoPrices == <<>>

\* start_time = min(unprocessed_contracts)
FetchStart(un) == SetMin(Range(un))

\* end_time = max(unprocessed_contracts) + pd.Timedelta(minutes=1)
\* (variant: nothing is added to the last slot start)
FetchEnd_atMax(un) == SetMax(Range(un))
FetchEnd(un) == SetMax(Range(un)) + FetchPadMinutes

\* the head of `while attempt < self._config.retries`, up to the fetch call
LoopHead(d, att, u) ==
    IF RetriesLeft(att)
    THEN LET un == GetUnprocessed(d) IN
         /\ unprocessed' = un
         /\ IF un = <<>>
            THEN /\ pc' = "idle"
                 /\ outcome' = "nothing_to_do"
                 /\ UNCHANGED <<start_time, end_time>>
            ELSE /\ pc' = "fetch"
                 /\ outcome' = "running"
                 /\ start_time' = FetchStart(un)
                 /\ end_time' = FetchEnd(un)
    ELSE /\ UNCHANGED <<unprocessed, start_time, end_time>>
         /\ IF u = Unbound
            THEN pc' = "raised" /\ outcome' = "raised"
            ELSE pc' = "idle" /\ outcome' = "exhausted"

\* where the coroutine goes when _process_available_prices has returned: the
\* `return` of the try block
\* (variant: the while loop goes round again while contracts are unprocessed)
AfterPrices_again(d) == IF GetUnprocessed(d) = <<>> THEN "idle" ELSE "fetch"
AfterPrices(d) == "idle"

\* the position `for timestamp in contracts` goes to after the `continue`
\* of a failed dispatch
\* (variant: `break` in place of `continue`)
AfterContinue_break(i) == Len(unprocessed) + 1
AfterContinue(i) == i + 1

\* the end of one iteration of `for timestamp in contracts`; failed: the
\* iteration ends at the `continue`
FinishContract(d, marks, failed) ==
    /\ active' = IF marks THEN SetItem(d, unprocessed[idx], TRUE) ELSE d
    /\ idx' = IF failed THEN AfterContinue(idx) ELSE idx + 1
    /\ IF idx' > Len(unprocessed)
       THEN pc' = AfterPrices(active') /\ outcome' = "processed"
       ELSE pc' = "eval" /\ outcome' = outcome

\* the (slot, site) pairs whose create call succeeded in this cycle
AcceptedNow == {<<creates[i].ts, creates[i].mg>> : i \in {j \in DOMAIN creates : creates[j].ok}}

\* PowerCurtailmentConfig(...): __post_init__ computes retry_window (which
\* raises OverflowError beyond the range of timedelta), then raises ValueError
\* or accepts
Construct ==
    /\ pc = "init"
    /\ pc' = IF TimedeltaOverflows(RetryWindow(cfg)) THEN "overflow_error"
             ELSE IF InvalidSchedule(cfg) THEN "rejected"
             ELSE "idle"
    /\ UNCHANGED <<cfg, now, active, attempt, backoff, unprocessed, start_time,
                   end_time, da_prices, idx, mgi, success_count, outcome,
                   fetches, results, sleeps, sends, creates, active0,
                   accepted, due, missed,
                   overlapped, healthy, tc,
                   client, used, failed_before,
                   tr, mb>>

\* the wall clock moves while the cycle awaits the fetch or sleeps (the clock
\* is read by update_contracts alone; the time the create calls take is part
\* of the time that Tick lets pass)
Advance ==
    /\ pc \in {"fetch", "sleep"}
    /\ now < MaxNow
    /\ now' = now + 1
    /\ UNCHANGED <<cfg, pc, active, attempt, backoff, unprocessed, start_time,
                   end_time, da_prices, idx, mgi, success_count, outcome,
                   fetches, results, sleeps, sends, creates, active0,
                   accepted, due, missed,
                   overlapped, healthy, tc,
                   client, used, failed_before,
                   tr, mb>>

\* `async for _ in timer`: the next tick is taken only when the awaited body
\* of the loop has returned
\* (variant: every tick starts its cycle at once, as a task of its own)
LoopIsFree_spawned == TRUE
LoopIsFree == pc = "idle"

\* Timer(run_frequency, SkipMissedAndDrift()): the ticks the timer holds
\* ready once one more period has ended; missed ticks are dropped and a
\* single one is triggered
\* (variant: every missed tick is kept and triggered later)
TicksHeld_queued(held) == held + 1
TicksHeld(held) == 1

\* da_prices is a local of _process_contracts_with_retries: a new call holds
\* no price series until its own fetch has returned one
\* (variant: the series of the last call is kept)
PricesAtStart_kept(p) == p
PricesAtStart(p) == NoPrices

\* attempt = 0 and backoff = self._config.initial_backoff: both are locals
\* of _process_contracts_with_retries, set anew by every call
\* (variant: the attempt counter the last call ended with is kept)
AttemptAtStart_kept(att) == att
AttemptAtStart(att) == 0

BackoffAtStart(b) == cfg.initial_backoff

\* the body of the loop starts, some time after the last cycle ended:
\* update_contracts, then _process_contracts_with_retries up to its first
\* await
StartCycle ==
    /\ LoopIsFree
    /\ overlapped' = (overlapped \/ pc # "idle")
    /\ now' \in now .. MaxNow
    /\ \E d \in UpdateContracts(active, now') :
        /\ active' = d
        /\ active0' = d
        /\ accepted' = {a \in accepted \cup AcceptedNow : a[1] \in Keys(d)}
        /\ attempt' = AttemptAtStart(attempt)
        /\ backoff' = BackoffAtStart(backoff)
        /\ LoopHead(d, attempt', Unbound)
    /\ da_prices' = PricesAtStart(da_prices)
    /\ idx' = 0
    /\ mgi' = 0
    /\ success_count' = 0
    /\ fetches' = 0
    /\ results' = <<>>
    /\ sleeps' = <<>>
    /\ sends' = <<>>
    /\ creates' = <<>>
    /\ client' = 0
    /\ used' = <<>>
    /\ UNCHANGED <<cfg, healthy, tc, tr, mb>>

\* the timer fires and the loop takes the tick (the timer itself is left out)
Tick ==
    /\ StartCycle
    /\ UNCHANGED <<due, missed, failed_before>>

\* the same step, with a record of whether the calls of
\* _process_contracts_with_retries so far had a fetch that raised
TickAfter ==
    /\ StartCycle
    /\ failed_before' = (failed_before \/ attempt > 0)
    /\ UNCHANGED <<due, missed>>

\* one more period of the timer ends, while the loop waits for the timer or
\* while a cycle is in progress
TimerFires ==
    /\ pc \notin {"init", "rejected", "overflow_error", "raised"}
    /\ IF pc = "idle"
       THEN due = 0 /\ missed' = missed
       ELSE missed < MaxMissed /\ missed' = missed + 1
    /\ due' = TicksHeld(due)
    /\ UNCHANGED <<cfg, pc, now, active, attempt, backoff, unprocessed,
                   start_time, end_time, da_prices, idx, mgi, success_count,
                   outcome, fetches, results, sleeps, sends, creates, active0,
                   accepted, overlapped, healthy, tc,
                   client, used, failed_before,
                   tr, mb>>

\* the loop takes a tick the timer holds ready
TimerTick ==
    /\ due > 0
    /\ due' = due - 1
    /\ missed' = 0
    /\ StartCycle
    /\ UNCHANGED failed_before

\* _fetch_da_prices returns a price series: _process_available_prices starts
FetchOk ==
    /\ pc = "fetch"
    /\ \E S \in SUBSET Range(unprocessed) : \E p \in [S -> Prices] :
        /\ healthy => S = Range(unprocessed)
        /\ da_prices' = p
    /\ used' = Append(used, client)
    /\ client' = client
    /\ fetches' = fetches + 1
    /\ results' = Append(results, "prices")
    /\ idx' = 1
    /\ pc' = "eval"
    /\ UNCHANGED <<cfg, now, active, attempt, backoff, unprocessed, start_time,
                   end_time, mgi, success_count, outcome, sleeps, sends,
                   creates, active0, accepted, due, missed,
                   overlapped, healthy, tc, failed_before,
                   tr, mb>>

\* variant: NoMatchingDataError is not caught by _fetch_da_prices and takes
\* the except branch of the retry loop
FetchNoData_retried ==
    /\ pc = "fetch"
    /\ ~healthy
    /\ used' = Append(used, client)
    /\ client' = client
    /\ fetches' = fetches + 1
    /\ results' = Append(results, "no_data")
    /\ attempt' = attempt + 1
    /\ active' = active
    /\ IF ShouldSleep(attempt + 1)
       THEN /\ pc' = "sleep"
            /\ sleeps' = Append(sleeps, backoff)
            /\ UNCHANGED <<unprocessed, start_time, end_time, outcome>>
       ELSE /\ sleeps' = sleeps
            /\ LoopHead(active, attempt + 1, unprocessed)
    /\ UNCHANGED <<cfg, now, backoff, da_prices, idx, mgi, success_count,
                   sends, creates, active0, accepted, due, missed,
                   overlapped, healthy, tc, failed_before,
                   tr, mb>>

\* NoMatchingDataError: _fetch_da_prices returns None and the cycle returns
FetchNoData ==
    /\ pc = "fetch"
    /\ ~healthy
    /\ used' = Append(used, client)
    /\ client' = client
    /\ fetches' = fetches + 1
    /\ results' = Append(results, "no_data")
    /\ pc' = "idle"
    /\ outcome' = "no_data"
    /\ UNCHANGED <<cfg, now, active, attempt, backoff, unprocessed, start_time,
                   end_time, da_prices, idx, mgi, success_count, sleeps, sends,
                   creates, active0, accepted, due, missed,
                   overlapped, healthy, tc, failed_before,
                   tr, mb>>

\* self._client = EntsoePandasClient(api_key=self._entsoe_key), before the
\* exception is raised again
\* (variant: the client is kept)
ClientAfterError_kept(c) == c
ClientAfterError(c) == c + 1

\* any other exception of the fetch: _fetch_da_prices replaces the client and
\* re-raises, then the except branch of the retry loop
FetchFail ==
    /\ pc = "fetch"
    /\ ~healthy
    /\ used' = Append(used, client)
    /\ client' = ClientAfterError(client)
    /\ fetches' = fetches + 1
    /\ results' = Append(results, "error")
    /\ attempt' = attempt + 1
    /\ active' = ContractsAfterFetchError(active, attempt + 1)
    /\ IF ShouldSleep(attempt + 1)
       THEN /\ pc' = "sleep"
            /\ sleeps' = Append(sleeps, backoff)
            /\ UNCHANGED <<unprocessed, start_time, end_time, outcome>>
       ELSE /\ sleeps' = sleeps
            /\ LoopHead(active', attempt + 1, unprocessed)
    /\ UNCHANGED <<cfg, now, backoff, da_prices, idx, mgi, success_count,
                   sends, creates, active0, accepted, due, missed,
                   overlapped, healthy, tc, failed_before,
                   tr, mb>>

\* _active_contracts when the retry loop starts over: update_contracts is
\* called by _run alone, once per tick, not by the retry loop
\* (variant: the window is refreshed before every attempt)
ContractsAtRetry_refreshed(d, t) == CHOOSE u \in UpdateContracts(d, t) : TRUE
ContractsAtRetry(d, t) == d

\* asyncio.sleep returns: backoff doubles and the loop starts over
SleepDone ==
    /\ pc = "sleep"
    /\ backoff' = NextBackoff(backoff)
    /\ active' = ContractsAtRetry(active, now)
    /\ LoopHead(active', attempt, unprocessed)
    /\ UNCHANGED <<cfg, now, attempt, da_prices, idx, mgi,
                   success_count, fetches, results, sleeps, sends, creates,
                   active0, accepted, due, missed,
                   overlapped, healthy, tc,
                   client, used, failed_before,
                   tr, mb>>

\* one iteration of _process_available_prices, up to the first create call
Evaluate ==
    /\ pc = "eval"
    /\ LET timestamp == unprocessed[idx] IN
       IF timestamp \in DOMAIN da_prices
       THEN IF AboveLimit(da_prices[timestamp])
            THEN IF cfg.microgrid_ids = <<>>
                 THEN /\ sends' = Append(sends, [ts |-> timestamp,
                                                 ok |-> DispatchSuccess(0)])
                      /\ FinishContract(active,
                            MarksProcessed(TRUE, DispatchSuccess(0)),
                            ~DispatchSuccess(0))
                      /\ UNCHANGED <<mgi, success_count>>
                 ELSE /\ pc' = "dispatch"
                      /\ mgi' = 1
                      /\ success_count' = 0
                      /\ UNCHANGED <<active, idx, outcome, sends>>
            ELSE /\ FinishContract(active, MarksProcessed(FALSE, FALSE),
                                   FALSE)
                 /\ UNCHANGED <<mgi, success_count, sends>>
       ELSE /\ FinishContract(active, MarksWithoutPrice, FALSE)
            /\ UNCHANGED <<mgi, success_count, sends>>
    /\ UNCHANGED <<cfg, now, attempt, backoff, unprocessed, start_time,
                   end_time, da_prices, fetches, results, sleeps, creates,
                   active0, accepted, due, missed,
                   overlapped, healthy, tc,
                   client, used, failed_before,
                   tr, mb>>

\* one dispatch create call of _send_dispatch returns or raises; after the
\* last one _send_dispatch returns and the contract is marked or not
Create ==
    /\ pc = "dispatch"
    /\ \E ok \in IF healthy THEN {TRUE} ELSE BOOLEAN :
        LET timestamp == unprocessed[idx]
            microgrid_id == cfg.microgrid_ids[mgi]
            count == IF ok THEN success_count + 1 ELSE success_count
        IN
        /\ creates' = Append(creates, [ts |-> timestamp, mg |-> microgrid_id,
                                       ok |-> ok])
        /\ success_count' = count
        /\ mgi' = AfterCreate(mgi, ok)
        /\ IF AfterCreate(mgi, ok) > Len(cfg.microgrid_ids)
           THEN /\ sends' = Append(sends, [ts |-> timestamp,
                                           ok |-> DispatchSuccess(count)])
                /\ FinishContract(active,
                      MarksProcessed(TRUE, DispatchSuccess(count)),
                      ~DispatchSuccess(count))
           ELSE UNCHANGED <<pc, active, idx, outcome, sends>>
    /\ UNCHANGED <<cfg, now, attempt, backoff, unprocessed, start_time,
                   end_time, da_prices, fetches, results, sleeps, active0,
                   accepted, due, missed,
                   overlapped, healthy, tc,
                   client, used, failed_before,
                   tr, mb>>

\* ------------------------------------------------- TcControlLogic.perform
Max(a, b) == IF a >= b THEN a ELSE b

\* the object (target_power, min_soc) and the arguments of one call; the
\* arguments latest_battery_power and latest_ev_charger_power are only logged
TcCall(target, min_soc, grid, soc, discharge, ev_max) ==
    [target_power |-> target, min_soc |-> min_soc,
     latest_grid_power |-> grid, latest_battery_soc |-> soc,
     latest_battery_max_discharge_power |-> discharge,
     latest_ev_charger_max_power |-> ev_max,
     at |-> "start", battery |-> <<>>, ev |-> <<>>]

NoCall == [TcCall(0, 0, 0, 0, 0, 0) EXCEPT !.at = "none"]

\* if latest_grid_power > self._target_power
AboveTarget(c) == c.latest_grid_power > c.target_power

\* if latest_battery_soc > self._min_soc
\* (variant: a battery at min_soc is still discharged)
BatteryUsable_ge(c) == c.latest_battery_soc >= c.min_soc
BatteryUsable(c) == c.latest_battery_soc > c.min_soc

\* if latest_grid_power < Power.zero()
\* (variant: a grid power of zero counts as export)
Exporting_le(c) == c.latest_grid_power <= 0
Exporting(c) == c.latest_grid_power < 0

restrict_power(c) == c.latest_grid_power - c.target_power

\* (variant: min in place of max)
battery_discharge_power_min(c) ==
    IF -restrict_power(c) <= c.latest_battery_max_discharge_power
    THEN -restrict_power(c) ELSE c.latest_battery_max_discharge_power
battery_discharge_power(c) ==
    Max(-restrict_power(c), c.latest_battery_max_discharge_power)

ev_restriction_power(c) ==
    Max(restrict_power(c) + c.latest_battery_max_discharge_power, 0)

ev_charge_power(c) ==
    Max(c.latest_ev_charger_max_power - ev_restriction_power(c), 0)

\* the else branch of the SoC test: restrict the EV power only
ev_restricted_only(c) ==
    Max(c.latest_ev_charger_max_power
            - (c.latest_grid_power - c.target_power), 0)

\* the branches of perform that call self._battery_pool.propose_power
ProposesToBattery(c) ==
    IF AboveTarget(c) THEN BatteryUsable(c) ELSE Exporting(c)

\* await self._battery_pool.propose_power(...)
ProposeBattery ==
    /\ tc.at = "start"
    /\ ProposesToBattery(tc)
    /\ tc' = [tc EXCEPT
            !.battery = Append(@, IF AboveTarget(tc)
                                  THEN battery_discharge_power(tc)
                                  ELSE -tc.latest_grid_power),
            !.at = "battery_proposed"]
    /\ UNCHANGED <<cfg, pc, now, active, attempt, backoff, unprocessed,
                   start_time, end_time, da_prices, idx, mgi, success_count,
                   outcome, fetches, results, sleeps, sends, creates, active0,
                   accepted, due, missed, overlapped, healthy,
                   client, used, failed_before,
                   tr, mb>>

\* await self._ev_charger_pool.propose_power(...), then perform returns
ProposeEv ==
    /\ \/ tc.at = "battery_proposed"
       \/ tc.at = "start" /\ ~ProposesToBattery(tc)
    /\ tc' = [tc EXCEPT
            !.ev = Append(@, IF AboveTarget(tc)
                             THEN IF BatteryUsable(tc)
                                  THEN ev_charge_power(tc)
                                  ELSE ev_restricted_only(tc)
                             ELSE tc.latest_ev_charger_max_power),
            !.at = "returned"]
    /\ UNCHANGED <<cfg, pc, now, active, attempt, backoff, unprocessed,
                   start_time, end_time, da_prices, idx, mgi, success_count,
                   outcome, fetches, results, sleeps, sends, creates, active0,
                   accepted, due, missed, overlapped, healthy,
                   client, used, failed_before,
                   tr, mb>>

\* ------------------------------------------------- TruckChargingActor
\* the target powers a Config can hold
Targets == 0 .. MaxTarget

\* Config(target_power, min_soc) of app/config.py
TruckConfig(target, min_soc) == [target_power |-> target, min_soc |-> min_soc]

\* the actor: self._config, self._target_power, the fields of
\* self._tc_control_logic (<<>>: None) and the locals latest_prod_power
\* (received or None), latest_battery_soc (<<>>: None),
\* latest_battery_max_discharge_power, latest_ev_charger_max_power and
\* latest_grid_power; latest_battery_power and latest_ev_charger_power are
\* passed on to perform, which only logs them
TruckActor(config) ==
    [at |-> "constructed", config |-> config,
     target_power |-> config.target_power, logic |-> <<>>,
     latest_prod_power |-> FALSE, latest_battery_soc |-> <<>>,
     latest_battery_max_discharge_power |-> 0,
     latest_ev_charger_max_power |-> 0]

NoActor == [TruckActor(TruckConfig(0, 0)) EXCEPT !.at = "none"]

\* the select loop takes its next message only when the awaited perform call
\* of the last grid power message has returned
SelectionIsFree == tr.at = "loop" /\ tc.at \in {"none", "returned"}

\* _run up to "Starting control loop": the TcControlLogic object is made
\* from self._target_power and self._config.min_soc
RunStart ==
    /\ tr.at = "constructed"
    /\ tr' = [tr EXCEPT !.at = "loop",
                        !.logic = <<[target_power |-> tr.target_power,
                                     min_soc |-> tr.config.min_soc]>>]
    /\ UNCHANGED <<cfg, pc, now, active, attempt, backoff, unprocessed,
                   start_time, end_time, da_prices, idx, mgi, success_count,
                   outcome, fetches, results, sleeps, sends, creates, active0,
                   accepted, due, missed, overlapped, healthy, tc,
                   client, used, failed_before, mb>>

\* a Config on the config receiver: self._config and self._target_power are
\* set, then self._tc_control_logic.set_target_power(...) is called, a method
\* the class TcControlLogic does not have: AttributeError leaves the loop
\* and, through the finally clause, _run
ConfigUpdate ==
    /\ SelectionIsFree
    /\ \E target \in Targets :
        tr' = [tr EXCEPT !.config = TruckConfig(target, @.min_soc),
                         !.target_power = target,
                         !.at = IF tr.logic # <<>> THEN "raised" ELSE "loop"]
    /\ UNCHANGED <<cfg, pc, now, active, attempt, backoff, unprocessed,
                   start_time, end_time, da_prices, idx, mgi, success_count,
                   outcome, fetches, results, sleeps, sends, creates, active0,
                   accepted, due, missed, overlapped, healthy, tc,
                   client, used, failed_before, mb>>

\* an Exception on the config receiver: a warning, and the loop goes on
\* (None on any receiver is skipped the same way)
InvalidConfigUpdate ==
    /\ SelectionIsFree
    /\ UNCHANGED vars

\* a message of one of the streams whose value is kept for the next perform
\* call: production power, battery SoC, battery power bounds (lower bound),
\* EV charger power bounds (upper bound)
StreamMessage ==
    /\ SelectionIsFree
    /\ \/ tr' = [tr EXCEPT !.latest_prod_power = TRUE]
       \/ \E soc \in 0 .. MaxSoc :
            tr' = [tr EXCEPT !.latest_battery_soc = <<soc>>]
       \/ \E lower \in -1 .. 0 :
            tr' = [tr EXCEPT !.latest_battery_max_discharge_power = lower]
       \/ \E upper \in 0 .. 1 :
            tr' = [tr EXCEPT !.latest_ev_charger_max_power = upper]
    /\ UNCHANGED <<cfg, pc, now, active, attempt, backoff, unprocessed,
                   start_time, end_time, da_prices, idx, mgi, success_count,
                   outcome, fetches, results, sleeps, sends, creates, active0,
                   accepted, due, missed, overlapped, healthy, tc,
                   client, used, failed_before, mb>>

\* a grid power message: the control logic runs unless production power or
\* battery SoC is still None
GridPowerMessage ==
    /\ SelectionIsFree
    /\ \E grid \in -1 .. MaxPower :
        IF ~tr.latest_prod_power \/ tr.latest_battery_soc = <<>>
        THEN tc' = tc
        ELSE tc' = TcCall(tr.logic[1].target_power, tr.logic[1].min_soc, grid,
                          tr.latest_battery_soc[1],
                          tr.latest_battery_max_discharge_power,
                          tr.latest_ev_charger_max_power)
    /\ UNCHANGED <<cfg, pc, now, active, attempt, backoff, unprocessed,
                   start_time, end_time, da_prices, idx, mgi, success_count,
                   outcome, fetches, results, sleeps, sends, creates, active0,
                   accepted, due, missed, overlapped, healthy,
                   client, used, failed_before, tr, mb>>

\* ------------------------------------------------- read_modbus_register
\* the coroutine when its loop starts: first_run = True,
\* last_register_value = 0
Reader ==
    [at |-> "loop", first_run |-> TRUE, last_register_value |-> 0,
     reads |-> <<>>, sent |-> <<>>]

NoReader == [Reader EXCEPT !.at = "none"]

\* last_register_value when it is compared with the value read:
\* `if first_run: last_register_value = result.registers[0]`
\* (variant: the first read is compared with the initial 0)
CompareWith_initial(first_run, last, value) == last
CompareWith(first_run, last, value) == IF first_run THEN value ELSE last

\* one round of the loop whose read returns a register value
ReadOk ==
    /\ mb.at = "loop"
    /\ Len(mb.reads) < MaxReads
    /\ \E value \in 0 .. MaxRegister :
        LET last == CompareWith(mb.first_run, mb.last_register_value, value)
        IN mb' = [mb EXCEPT
                    !.first_run = FALSE,
                    !.last_register_value = IF last # value THEN value
                                            ELSE last,
                    !.sent = IF last # value THEN Append(@, value) ELSE @,
                    !.reads = Append(@, [ok |-> TRUE, value |-> value])]
    /\ UNCHANGED <<cfg, pc, now, active, attempt, backoff, unprocessed,
                   start_time, end_time, da_prices, idx, mgi, success_count,
                   outcome, fetches, results, sleeps, sends, creates, active0,
                   accepted, due, missed, overlapped, healthy, tc,
                   client, used, failed_before, tr>>

\* one round of the loop whose read returns an error response
ReadError ==
    /\ mb.at = "loop"
    /\ Len(mb.reads) < MaxReads
    /\ mb' = [mb EXCEPT !.reads = Append(@, [ok |-> FALSE, value |-> 0])]
    /\ UNCHANGED <<cfg, pc, now, active, attempt, backoff, unprocessed,
                   start_time, end_time, da_prices, idx, mgi, success_count,
                   outcome, fetches, results, sleeps, sends, creates, active0,
                   accepted, due, missed, overlapped, healthy, tc,
                   client, used, failed_before, tr>>

\* ------------------------------------------------------- specifications
RunConfigs ==
    {c \in {Config(r, 1, Pow2(MaxRetries), n) :
                r \in {0, MaxRetries}, n \in 0 .. MaxMicrogrids} :
        ~TimedeltaOverflows(RetryWindow(c)) /\ ~InvalidSchedule(c)}

CheckedConfigs ==
    {Config(r, b, f, 1) : r \in 0 .. CfgMaxRetries, b \in 1 .. CfgMaxBackoff,
                          f \in 1 .. CfgMaxRunFrequency}

InitLocals ==
    /\ now = 0
    /\ active = <<>>
    /\ attempt = 0
    /\ backoff = cfg.initial_backoff
    /\ unprocessed = Unbound
    /\ start_time = 0
    /\ end_time = 0
    /\ da_prices = NoPrices
    /\ idx = 0
    /\ mgi = 0
    /\ success_count = 0
    /\ outcome = "none"
    /\ fetches = 0
    /\ results = <<>>
    /\ sleeps = <<>>
    /\ sends = <<>>
    /\ creates = <<>>
    /\ active0 = <<>>
    /\ accepted = {}
    /\ due = 0
    /\ missed = 0
    /\ overlapped = FALSE
    /\ healthy = FALSE
    /\ client = 0
    /\ used = <<>>
    /\ failed_before = FALSE

\* the actor after construction, with an accepted configuration
Init ==
    /\ cfg \in RunConfigs
    /\ pc = "idle"
    /\ InitLocals
    /\ tc = NoCall
    /\ tr = NoActor
    /\ mb = NoReader

Next ==
    \/ Advance
    \/ Tick
    \/ FetchOk
    \/ FetchNoData
    \/ FetchFail
    \/ SleepDone
    \/ Evaluate
    \/ Create

Spec == Init /\ [][Next]_vars

\* the actor under a da_price_frequency that puts three slots into the window
DenseConfig ==
    [Config(MaxRetries, 1, Pow2(MaxRetries), 1) EXCEPT
        !.da_price_frequency = DenseSlotLen]

DenseInit ==
    /\ cfg = DenseConfig
    /\ pc = "idle"
    /\ InitLocals
    /\ tc = NoCall
    /\ tr = NoActor
    /\ mb = NoReader

DenseSpec == DenseInit /\ [][Next]_vars

\* the actor together with its timer, whose periods end at any time
TimerInit ==
    /\ cfg = Config(MaxRetries, 1, Pow2(MaxRetries), 1)
    /\ pc = "idle"
    /\ InitLocals
    /\ tc = NoCall
    /\ tr = NoActor
    /\ mb = NoReader

TimerNext ==
    \/ Advance
    \/ TimerFires
    \/ TimerTick
    \/ FetchOk
    \/ FetchNoData
    \/ FetchFail
    \/ SleepDone
    \/ Evaluate
    \/ Create

TimerSpec == TimerInit /\ [][TimerNext]_vars

\* from here on the price source has a price for every slot asked for and
\* every create call succeeds
Recover ==
    /\ pc \in {"idle", "fetch", "sleep", "eval", "dispatch"}
    /\ ~healthy
    /\ healthy' = TRUE
    /\ UNCHANGED <<cfg, pc, now, active, attempt, backoff, unprocessed,
                   start_time, end_time, da_prices, idx, mgi, success_count,
                   outcome, fetches, results, sleeps, sends, creates, active0,
                   accepted, due, missed, overlapped, tc,
                   client, used, failed_before,
                   tr, mb>>

\* the actor under a timer that keeps ticking and calls that keep returning
LiveInit ==
    /\ cfg \in {Config(r, 1, Pow2(MaxRetries), 1) : r \in {0, MaxRetries}}
    /\ pc = "idle"
    /\ InitLocals
    /\ tc = NoCall
    /\ tr = NoActor
    /\ mb = NoReader

LiveNext ==
    \/ Advance
    \/ Tick
    \/ FetchOk
    \/ FetchNoData
    \/ FetchFail
    \/ SleepDone
    \/ Evaluate
    \/ Create
    \/ Recover

\* the periodic timer keeps firing (Tick) and every awaited call returns in
\* the end: the fetch, asyncio.sleep, the create calls
LiveSpec ==
    /\ LiveInit
    /\ [][LiveNext]_vars
    /\ WF_vars(Tick)
    /\ WF_vars(FetchOk)
    /\ WF_vars(SleepDone)
    /\ WF_vars(Evaluate)
    /\ WF_vars(Create)

\* single calls of TcControlLogic.perform, for every object and argument
\* values within the bounds
TcCalls ==
    {TcCall(target, min_soc, grid, soc, discharge, ev_max) :
        target \in -1 .. 1, min_soc \in {1},
        grid \in -MaxPower .. MaxPower, soc \in 0 .. MaxSoc,
        discharge \in -MaxPower .. 1, ev_max \in 0 .. MaxPower}

PerformInit ==
    /\ cfg = Config(1, 1, Pow2(MaxRetries), 1)
    /\ pc = "idle"
    /\ InitLocals
    /\ tc \in TcCalls
    /\ tr = NoActor
    /\ mb = NoReader

PerformNext ==
    \/ ProposeBattery
    \/ ProposeEv

PerformSpec == PerformInit /\ [][PerformNext]_vars

\* the configuration check followed by cycles whose every fetch fails
RetryInit ==
    /\ cfg \in CheckedConfigs
    /\ pc = "init"
    /\ InitLocals
    /\ tc = NoCall
    /\ tr = NoActor
    /\ mb = NoReader

RetryNext ==
    \/ Construct
    \/ Tick
    \/ FetchFail
    \/ SleepDone

RetrySpec == RetryInit /\ [][RetryNext]_vars

\* one call of _process_contracts_with_retries after the other, with the
\* record of the failures of the earlier ones
CarryInit ==
    /\ cfg = Config(MaxRetries, 1, Pow2(MaxRetries), 1)
    /\ pc = "idle"
    /\ InitLocals
    /\ tc = NoCall
    /\ tr = NoActor
    /\ mb = NoReader

CarryNext ==
    \/ Advance
    \/ TickAfter
    \/ FetchOk
    \/ FetchNoData
    \/ FetchFail
    \/ SleepDone
    \/ Evaluate
    \/ Create

CarrySpec == CarryInit /\ [][CarryNext]_vars

\* the truck charging actor after __init__, its messages and the perform
\* calls of its control loop
TruckInit ==
    /\ cfg = Config(1, 1, Pow2(MaxRetries), 1)
    /\ pc = "idle"
    /\ InitLocals
    /\ tc = NoCall
    /\ tr \in {TruckActor(TruckConfig(target, 1)) : target \in Targets}
    /\ mb = NoReader

TruckNext ==
    \/ RunStart
    \/ ConfigUpdate
    \/ InvalidConfigUpdate
    \/ StreamMessage
    \/ GridPowerMessage
    \/ ProposeBattery
    \/ ProposeEv

TruckSpec == TruckInit /\ [][TruckNext]_vars

\* read_modbus_register from the start of its loop
ModbusInit ==
    /\ cfg = Config(1, 1, Pow2(MaxRetries), 1)
    /\ pc = "idle"
    /\ InitLocals
    /\ tc = NoCall
    /\ tr = NoActor
    /\ mb = Reader

ModbusNext ==
    \/ ReadOk
    \/ ReadError

ModbusSpec == ModbusInit /\ [][ModbusNext]_vars

\* ------------------------------------------------- vocabulary of the claims
\* position i of the batch has been through the body of the contracts loop
\* (or is inside its _send_dispatch call)
Evaluated(i) == i < idx \/ (i = idx /\ pc = "dispatch")
Decided(i) == i < idx

\* _send_dispatch was called for slot t in this cycle
Attempted(t) ==
    \/ \E k \in DOMAIN sends : sends[k].ts = t
    \/ pc = "dispatch" /\ unprocessed[idx] = t

\* the create calls of this cycle for slot t, in call order
CreatesFor(t) == SelectSeq(creates, LAMBDA c : c.ts = t)
SitesOf(cs) == [k \in DOMAIN cs |-> cs[k].mg]

\* every configured site accepted a create call for slot t in this cycle
AllSitesSucceeded(t) ==
    \A m \in Range(cfg.microgrid_ids) :
        \E k \in DOMAIN creates :
            creates[k].ts = t /\ creates[k].mg = m /\ creates[k].ok

InBatch == IF unprocessed = Unbound THEN {} ELSE DOMAIN unprocessed

\* C1: a contract of the batch that has a fetched price p gets a
\* _send_dispatch call if and only if p > price_limit; a price equal to
\* price_limit never triggers one.
C1_ThresholdDecision ==
    \A i \in InBatch :
        (Evaluated(i) /\ unprocessed[i] \in DOMAIN da_prices)
            => (Attempted(unprocessed[i])
                    <=> da_prices[unprocessed[i]] > cfg.price_limit)

C1_Witness ==
    /\ outcome = "processed"
    /\ \E i, j \in InBatch :
        /\ unprocessed[i] \in DOMAIN da_prices
        /\ unprocessed[j] \in DOMAIN da_prices
        /\ da_prices[unprocessed[i]] = cfg.price_limit
        /\ ~Attempted(unprocessed[i])
        /\ da_prices[unprocessed[j]] = cfg.price_limit + 1
        /\ Attempted(unprocessed[j])

\* C2 as claimed: no site receives a create call for a slot for which it
\* accepted a create call in an earlier cycle.
C2_NoSecondCreateForAcceptedSite ==
    \A k \in DOMAIN creates : <<creates[k].ts, creates[k].mg>> \notin accepted

\* C2 as amended: a create call is only ever made for a tracked slot that was
\* unresolved when the cycle started (none once the contract is resolved),
\* and within one cycle a site receives at most one create call per slot.
C2_NoCreateOnceResolved ==
    /\ \A k \in DOMAIN creates :
        /\ creates[k].ts \in Keys(active0)
        /\ ~Flag(active0, creates[k].ts)
    /\ \A k, l \in DOMAIN creates :
        (creates[k].ts = creates[l].ts /\ creates[k].mg = creates[l].mg)
            => k = l

\* a slot resolved by a dispatch that repeats a create call to a site which
\* had accepted in an earlier, partially failed cycle
C2_Witness ==
    /\ outcome = "processed"
    /\ \E k \in DOMAIN sends :
        /\ sends[k].ok
        /\ Flag(active, sends[k].ts)
        /\ \E m \in Range(cfg.microgrid_ids) : <<sends[k].ts, m>> \in accepted

\* C3: a contract whose _send_dispatch call reported failure keeps its flag
\* False through the rest of the cycle and is among the unprocessed contracts
\* afterwards.
C3_FailedDispatchStaysUnresolved ==
    \A k \in DOMAIN sends :
        ~sends[k].ok =>
            /\ ~Flag(active, sends[k].ts)
            /\ sends[k].ts \in Range(GetUnprocessed(active))

C3_Witness ==
    /\ outcome = "processed"
    /\ \E k \in DOMAIN sends :
        /\ ~sends[k].ok
        /\ da_prices[sends[k].ts] > cfg.price_limit
        /\ \E c \in Range(creates) : c.ts = sends[k].ts /\ c.ok
        /\ ~Flag(active, sends[k].ts)

\* C4: once the loop is past a contract with a price p: p <= price_limit
\* means it is resolved with no dispatch and no create call; p > price_limit
\* with every site's create call successful means it is resolved.
C4_DecisionMarksResolved ==
    \A i \in InBatch :
        (Decided(i) /\ unprocessed[i] \in DOMAIN da_prices) =>
            LET t == unprocessed[i] IN
            /\ da_prices[t] <= cfg.price_limit
                => (Flag(active, t) /\ ~Attempted(t) /\ CreatesFor(t) = <<>>)
            /\ (da_prices[t] > cfg.price_limit /\ AllSitesSucceeded(t))
                => Flag(active, t)

\* two contracts, one above the limit and dispatched to every site, one below:
\* one dispatch, both resolved
C4_Witness ==
    /\ outcome = "processed"
    /\ Len(unprocessed) = 2
    /\ Len(sends) = 1
    /\ cfg.microgrid_ids # <<>>
    /\ \E i, j \in InBatch :
        /\ DOMAIN da_prices = {unprocessed[i], unprocessed[j]}
        /\ da_prices[unprocessed[i]] > cfg.price_limit
        /\ da_prices[unprocessed[j]] < cfg.price_limit
        /\ sends[1].ts = unprocessed[i]
        /\ AllSitesSucceeded(unprocessed[i])
        /\ Flag(active, unprocessed[i])
        /\ Flag(active, unprocessed[j])

\* C5: _send_dispatch returns True if and only if the create call succeeded
\* for every configured microgrid id.
C5_DispatchAggregation ==
    \A k \in DOMAIN sends : sends[k].ok <=> AllSitesSucceeded(sends[k].ts)

\* microgrid_ids of two sites: the first accepts, the second fails, the
\* result is failure
C5_Witness ==
    /\ Len(cfg.microgrid_ids) = 2
    /\ \E k \in DOMAIN sends :
        /\ ~sends[k].ok
        /\ CreatesFor(sends[k].ts) =
             <<[ts |-> sends[k].ts, mg |-> cfg.microgrid_ids[1], ok |-> TRUE],
               [ts |-> sends[k].ts, mg |-> cfg.microgrid_ids[2], ok |-> FALSE]>>

\* C6: a finished _send_dispatch call has made exactly one create call per
\* configured microgrid id, in list order, whatever failed; a running one has
\* made them for the ids before its position.
C6_EverySiteAttemptedInOrder ==
    /\ \A k \in DOMAIN sends :
        SitesOf(CreatesFor(sends[k].ts)) = cfg.microgrid_ids
    /\ pc = "dispatch" =>
        SitesOf(CreatesFor(unprocessed[idx])) = SubSeq(cfg.microgrid_ids, 1, mgi - 1)

\* the first site fails and the second is attempted all the same
C6_Witness ==
    /\ Len(cfg.microgrid_ids) = 2
    /\ \E k \in DOMAIN sends :
        LET cs == CreatesFor(sends[k].ts) IN
        /\ Len(cs) = 2
        /\ ~cs[1].ok
        /\ cs[2].mg = cfg.microgrid_ids[2]

\* the sleeps of a cycle of r attempts that all failed
ExpectedSleeps(r, b) == [k \in 1 .. (r - 1) |-> b * Pow2(k - 1)]

\* C7: a cycle whose every fetch failed made exactly `retries` fetch calls
\* and slept initial_backoff * 2^(k-1) after the k-th of them, k < retries,
\* with no sleep after the last; no cycle makes more fetch calls than that.
C7_RetryBound ==
    /\ fetches <= cfg.retries
    /\ outcome = "exhausted" =>
        /\ fetches = cfg.retries
        /\ sleeps = ExpectedSleeps(cfg.retries, cfg.initial_backoff)

\* retries=3, initial_backoff=1: three attempts, sleeps of 1 then 2
C7_Witness ==
    /\ outcome = "exhausted"
    /\ cfg.retries = 3
    /\ cfg.initial_backoff = 1
    /\ fetches = 3
    /\ sleeps = <<1, 2>>

\* C8: a cycle whose every fetch failed ends with no dispatch and no create
\* call, with _active_contracts as it was when the retry loop started, and
\* back at the timer after exactly `retries` fetch calls.
C8_ExhaustionLeavesStateUntouched ==
    outcome = "exhausted" =>
        /\ sends = <<>>
        /\ creates = <<>>
        /\ active = active0
        /\ pc = "idle"
        /\ fetches = cfg.retries
        /\ GetUnprocessed(active) = unprocessed

\* an exhausted cycle over a dict that holds a resolved and an unresolved slot
C8_Witness ==
    /\ outcome = "exhausted"
    /\ \E i, j \in DOMAIN active : active[i].processed /\ ~active[j].processed

\* C9: the constructor raises ValueError ("Invalid schedule") if and only if
\* initial_backoff * (2^retries - 1) >= run_frequency, and accepts otherwise.
C9_ConfigCheck ==
    pc # "init" =>
        (pc = "rejected" <=>
            cfg.initial_backoff * (Pow2(cfg.retries) - 1) >= cfg.run_frequency)

\* C10: under an accepted configuration the backoff sleeps of one cycle sum
\* to less than run_frequency.
C10_SleepsFitRunFrequency ==
    pc \notin {"init", "rejected", "overflow_error"}
        => SumSeq(sleeps) < cfg.run_frequency

\* the tightest accepted schedule, slept through to exhaustion
C10_Witness ==
    /\ outcome = "exhausted"
    /\ cfg.retries = 3
    /\ cfg.run_frequency = cfg.initial_backoff * (Pow2(cfg.retries) - 1) + 1
    /\ SumSeq(sleeps) = cfg.initial_backoff * 3

\* C11: when a fetch reports no matching data, the cycle ends with that
\* fetch: no sleep and no fetch follows it, _send_dispatch and create are
\* never called in the cycle, and every contract of the batch keeps
\* processed = False.
C11_NoDataEndsCycle ==
    \A i \in DOMAIN results :
        results[i] = "no_data" =>
            /\ i = Len(results)
            /\ fetches = i
            /\ Len(sleeps) = i - 1
            /\ pc = "idle"
            /\ sends = <<>>
            /\ creates = <<>>
            /\ active = active0
            /\ \A k \in InBatch : ~Flag(active, unprocessed[k])

\* no data for a batch of three contracts, on the first fetch of the cycle
C11_Witness ==
    /\ results = <<"no_data">>
    /\ Len(unprocessed) = 3
    /\ pc = "idle"

\* the slots that were resolved when this cycle started
ResolvedAtStart == {t \in Keys(active0) : Flag(active0, t)}

\* a fetch call of this cycle was made, or is being made, with the range
\* [start_time, end_time)
FetchIssued == pc = "fetch" \/ fetches > 0

\* C12 (as stated): once a contract is resolved, no later fetch range
\* [start_time, end_time) contains its slot start and no later _send_dispatch
\* targets it.
C12_NoFetchNoDispatchOnceResolved ==
    \A t \in ResolvedAtStart :
        /\ FetchIssued => ~(start_time <= t /\ t < end_time)
        /\ ~Attempted(t)

\* C12 (amended): a resolved contract stays resolved while it is tracked, is
\* in no later batch, and no later _send_dispatch or create call targets it.
C12_ResolvedStaysOutOfBatch ==
    \A t \in ResolvedAtStart :
        /\ Flag(active, t)
        /\ \A k \in InBatch : unprocessed[k] # t
        /\ ~Attempted(t)
        /\ CreatesFor(t) = <<>>

\* a cycle that dispatched for the slots on both sides of a resolved one
C12_Witness ==
    /\ outcome = "processed"
    /\ Len(sends) = 2
    /\ \E t \in ResolvedAtStart : start_time < t /\ t < end_time

\* the multiples of the slot frequency in [from, to)
AlignedSlots(from, to) ==
    {t \in 0 .. to : t % cfg.da_price_frequency = 0 /\ from <= t /\ t < to}

\* the first multiple of the slot frequency at or after t
NextBoundary(t) ==
    CHOOSE b \in t .. t + cfg.da_price_frequency :
        b % cfg.da_price_frequency = 0
            /\ \A c \in t .. b - 1 : c % cfg.da_price_frequency # 0

\* C13 (as stated): right after update_contracts the tracked slot starts are
\* exactly the multiples of the slot frequency in
\* [ceil(now, frequency), now + 2 days).
C13_WindowEndsTwoDaysAhead ==
    [][pc = "idle" =>
        Keys(active') =
            AlignedSlots(NextBoundary(now'), now' + WindowDays * DayLen)]_vars

\* C13 (amended): right after update_contracts the tracked slot starts are
\* exactly the multiples of the slot frequency in
\* [ceil(now, frequency), midnight of the day that holds now + 2 days).
C13_WindowEndsAtMidnight ==
    [][pc = "idle" =>
        Keys(active') =
            AlignedSlots(NextBoundary(now'),
                ((now' + WindowDays * DayLen) \div DayLen) * DayLen)]_vars

\* a refresh in the middle of a day: a slot that starts less than two days
\* ahead, yet after the midnight in between, is not tracked
C13_Witness ==
    /\ pc = "fetch"
    /\ fetches = 0
    /\ now % DayLen # 0
    /\ Keys(active) =
            AlignedSlots(NextBoundary(now),
                ((now + WindowDays * DayLen) \div DayLen) * DayLen)
    /\ Keys(active) # AlignedSlots(NextBoundary(now), now + WindowDays * DayLen)

\* the dicts a refresh at some time t >= now can make of the current dict
Refreshed(t) == UpdateContracts(active, t)

\* C14: a second update_contracts with the same now adds nothing, removes
\* nothing and leaves the dict (keys, order and flags) as the first left it.
C14_RefreshIdempotent ==
    \A t \in now .. MaxNow : \A d1 \in Refreshed(t) :
        /\ AddedKeys(Keys(d1), CurrentContracts(t)) = {}
        /\ RemovedKeys(Keys(d1), CurrentContracts(t)) = {}
        /\ UpdateContracts(d1, t) = {d1}

\* a first refresh that drops a slot, adds a slot and keeps a resolved one
C14_Witness ==
    /\ pc = "idle"
    /\ \E t \in now .. MaxNow : \E d1 \in Refreshed(t) :
        /\ Keys(active) \ Keys(d1) # {}
        /\ Keys(d1) \ Keys(active) # {}
        /\ \E k \in Keys(d1) : Flag(d1, k)
        /\ UpdateContracts(d1, t) = {d1}

\* C15: update_contracts adds every target slot that is not tracked, with
\* flag False, removes every tracked slot outside the target set whatever
\* its flag, and leaves the flag of every slot that stays tracked as it was.
C15_RefreshDiff ==
    \A t \in now .. MaxNow : \A d1 \in Refreshed(t) :
        /\ Keys(d1) = CurrentContracts(t)
        /\ Len(d1) = Cardinality(Keys(d1))
        /\ \A k \in Keys(d1) \ Keys(active) : ~Flag(d1, k)
        /\ \A k \in Keys(d1) \cap Keys(active) : Flag(d1, k) = Flag(active, k)

\* a refresh that removes a resolved and an unresolved slot, keeps a resolved
\* and an unresolved one, or adds one
C15_Witness ==
    /\ pc = "idle"
    /\ \E t \in now .. MaxNow : \E d1 \in Refreshed(t) :
        /\ \E k \in Keys(active) \ Keys(d1) : Flag(active, k)
        /\ \E k \in Keys(active) \ Keys(d1) : ~Flag(active, k)
        /\ \E k \in Keys(active) \cap Keys(d1) : Flag(d1, k)
        /\ \E k \in Keys(d1) \ Keys(active) : ~Flag(d1, k)

\* the tracked slot starts whose flag is False
UnresolvedKeys == {t \in Keys(active) : ~Flag(active, t)}

\* C16: _get_unprocessed_contracts returns exactly the tracked slot starts
\* whose flag is False, each once and none whose flag is True, and leaves the
\* dict as it was: the batch a cycle is about to fetch for is that list and
\* the dict is still the one update_contracts left.
C16_UnprocessedMembership ==
    /\ Range(GetUnprocessed(active)) = UnresolvedKeys
    /\ Len(GetUnprocessed(active)) = Cardinality(UnresolvedKeys)
    /\ pc = "fetch" =>
        /\ Range(unprocessed) = UnresolvedKeys
        /\ Len(unprocessed) = Cardinality(UnresolvedKeys)
        /\ active = active0

\* a batch of two taken from a dict that also holds a resolved slot
C16_Witness ==
    /\ pc = "fetch"
    /\ Len(unprocessed) = 2
    /\ \E t \in Keys(active) : Flag(active, t)

\* C17: the list returned by _get_unprocessed_contracts, and with it the
\* batch of every cycle, is sorted by slot start ascending.
C17_UnprocessedSorted ==
    /\ \A i, j \in DOMAIN GetUnprocessed(active) :
            i < j => GetUnprocessed(active)[i] < GetUnprocessed(active)[j]
    /\ \A i, j \in InBatch : i < j => unprocessed[i] < unprocessed[j]

\* C18: at most one cycle is in progress at any time: a timer period that
\* ends while a cycle is fetching, dispatching or sleeping starts no second
\* cycle, and the ticks missed that way are not queued (the timer never holds
\* more than one tick ready).
C18_NoOverlapNoQueue ==
    /\ ~overlapped
    /\ due <= 1

\* two timer periods ended while one cycle sleeps in backoff
C18_Witness ==
    /\ pc = "sleep"
    /\ missed = MaxMissed
    /\ due = 1
    /\ sleeps # <<>>

\* C19: under a configuration the constructor accepted,
\* _process_contracts_with_retries never raises, whatever the fetches and the
\* create calls come to.
C19_CycleNeverRaises == pc # "raised"

\* every slot start the window can hold
SlotStarts == 0 .. (MaxNow + WindowDays * DayLen)

\* C20: under fair timer ticks, once the price source has a price for every
\* slot and every create call succeeds, a tracked unresolved slot eventually
\* becomes resolved or leaves the window.
C20_UnresolvedSlotGetsResolved ==
    \A t \in SlotStarts :
        (healthy /\ t \in UnresolvedKeys) ~> (t \notin UnresolvedKeys)

\* C21: perform with grid power at or below target: the EV charger pool is
\* proposed exactly latest_ev_charger_max_power, and the battery pool is
\* proposed -latest_grid_power if and only if latest_grid_power < 0; else
\* the battery pool gets no proposal.
C21_AtOrBelowTarget ==
    (tc.at = "returned" /\ tc.latest_grid_power <= tc.target_power) =>
        /\ tc.ev = <<tc.latest_ev_charger_max_power>>
        /\ tc.battery = IF tc.latest_grid_power < 0
                        THEN <<-tc.latest_grid_power>> ELSE <<>>

\* a call with zero grid power under a positive target, and one that exports
C21_Witness ==
    /\ tc.at = "returned"
    /\ tc.latest_grid_power <= tc.target_power
    /\ \/ tc.latest_grid_power = 0 /\ tc.battery = <<>>
       \/ tc.latest_grid_power = -MaxPower /\ tc.battery = <<MaxPower>>
    /\ tc.ev = <<MaxPower>>

\* C22: perform with grid power above target and SoC above min_soc: with
\* r = grid - target the battery pool is proposed max(-r, max_discharge) and
\* the EV pool max(ev_max - max(r + max_discharge, 0), 0), each exactly once.
C22_DischargeAndRestrict ==
    (/\ tc.at = "returned"
     /\ tc.latest_grid_power > tc.target_power
     /\ tc.latest_battery_soc > tc.min_soc) =>
        LET r == tc.latest_grid_power - tc.target_power
            d == tc.latest_battery_max_discharge_power
            over == IF r + d > 0 THEN r + d ELSE 0
            left == tc.latest_ev_charger_max_power - over
        IN /\ tc.battery = <<IF -r >= d THEN -r ELSE d>>
           /\ tc.ev = <<IF left > 0 THEN left ELSE 0>>

\* the battery cannot cover the excess, so the EV pool is restricted too
C22_Witness ==
    /\ tc.at = "returned"
    /\ tc.latest_grid_power - tc.target_power = 2
    /\ tc.latest_battery_soc > tc.min_soc
    /\ tc.battery = <<-1>>
    /\ tc.latest_ev_charger_max_power = 2
    /\ tc.ev = <<1>>

\* C23: perform with grid power above target and SoC at or below min_soc: the
\* battery pool gets no proposal and the EV pool is proposed
\* max(ev_max - (grid - target), 0), exactly once.
C23_RestrictEvOnly ==
    (/\ tc.at = "returned"
     /\ tc.latest_grid_power > tc.target_power
     /\ tc.latest_battery_soc <= tc.min_soc) =>
        LET left == tc.latest_ev_charger_max_power
                        - (tc.latest_grid_power - tc.target_power)
        IN /\ tc.battery = <<>>
           /\ tc.ev = <<IF left > 0 THEN left ELSE 0>>

\* a battery exactly at min_soc, and an EV power restricted to a part
C23_Witness ==
    /\ tc.at = "returned"
    /\ tc.latest_grid_power - tc.target_power = 1
    /\ tc.latest_battery_soc = tc.min_soc
    /\ tc.latest_ev_charger_max_power = 2
    /\ tc.ev = <<1>>
    /\ tc.battery = <<>>

\* C24 (as stated): every fetch of a cycle is called with start = the
\* smallest unresolved slot start and end = the largest unresolved slot
\* start plus one slot length (da_price_frequency).
C24_FetchEndsOneSlotAfterLast ==
    FetchIssued =>
        /\ start_time \in Range(unprocessed)
        /\ \A t \in Range(unprocessed) : start_time <= t
        /\ end_time - cfg.da_price_frequency \in Range(unprocessed)
        /\ \A t \in Range(unprocessed) : t <= end_time - cfg.da_price_frequency

\* C24 (amended): every fetch of a cycle is called with start = the smallest
\* unresolved slot start and end = the largest unresolved slot start plus
\* one minute, so that [start, end) holds every unresolved slot start.
C24_FetchEndsOneMinuteAfterLast ==
    /\ pc = "fetch" => Range(unprocessed) = UnresolvedKeys
    /\ FetchIssued =>
        /\ start_time \in Range(unprocessed)
        /\ \A t \in Range(unprocessed) : start_time <= t /\ t < end_time
        /\ end_time - 1 \in Range(unprocessed)

\* the second fetch of a cycle, for a batch of three
C24_Witness ==
    /\ pc = "fetch"
    /\ fetches = 1
    /\ Len(unprocessed) = 3
    /\ end_time < start_time + 3 * cfg.da_price_frequency

\* a cycle has started whose dict held no unresolved contract after
\* update_contracts
StartedWithNothingUnresolved ==
    /\ outcome # "none"
    /\ active0 # <<>>
    /\ \A i \in DOMAIN active0 : active0[i].processed

\* C25: a cycle that starts with no unresolved tracked contract makes no
\* fetch, no dispatch and no sleep and leaves _active_contracts unchanged.
C25_IdleNoOp ==
    StartedWithNothingUnresolved =>
        /\ fetches = 0
        /\ results = <<>>
        /\ sleeps = <<>>
        /\ sends = <<>>
        /\ creates = <<>>
        /\ active = active0
        /\ pc \in {"idle", "raised"}

\* a cycle over two tracked contracts, both resolved, that returned at once
C25_Witness ==
    /\ StartedWithNothingUnresolved
    /\ outcome = "nothing_to_do"
    /\ Len(active) = 2
    /\ pc = "idle"

\* C26: a contract of the batch whose slot start has no entry in the fetched
\* prices gets no dispatch call and stays unresolved; the loop goes on, and
\* the contracts of the batch that have a price are decided all the same
\* (marked when the price is not above the limit, dispatched when it is).
C26_MissingPricePoint ==
    /\ \A i \in InBatch :
        Decided(i) =>
            IF unprocessed[i] \in DOMAIN da_prices
            THEN IF da_prices[unprocessed[i]] > cfg.price_limit
                 THEN Attempted(unprocessed[i])
                 ELSE Flag(active, unprocessed[i])
            ELSE /\ ~Attempted(unprocessed[i])
                 /\ CreatesFor(unprocessed[i]) = <<>>
                 /\ ~Flag(active, unprocessed[i])
    /\ outcome = "processed" => \A i \in InBatch : Decided(i)

\* a batch of three whose middle contract has no price point: the first is
\* marked and the last is dispatched
C26_Witness ==
    /\ outcome = "processed"
    /\ Len(unprocessed) = 3
    /\ unprocessed[2] \notin DOMAIN da_prices
    /\ ~Flag(active, unprocessed[2])
    /\ Flag(active, unprocessed[1])
    /\ ~Attempted(unprocessed[1])
    /\ Attempted(unprocessed[3])

\* the client self._client holds once fetch i of this cycle is over
ClientAfter(i) == IF i < Len(used) THEN used[i + 1] ELSE client

\* C27: a fetch that fails with anything but NoData leaves a new client in
\* self._client, so the next fetch goes to another client than the failed
\* one; a fetch that returns prices or NoData leaves the client in place.
C27_ClientReplacedOnFailure ==
    /\ Len(used) = Len(results)
    /\ \A i \in DOMAIN results :
        (results[i] = "error") <=> (ClientAfter(i) # used[i])

\* a failed fetch, then a fetch on the new client that reports NoData
C27_Witness ==
    /\ results = <<"error", "no_data">>
    /\ used[2] # used[1]
    /\ client = used[2]

\* C28: within one cycle _send_dispatch is called at most once per contract,
\* and a fetch that returned prices is the last fetch of the cycle, whatever
\* the dispatches came to.
C28_NoDispatchRetryInCycle ==
    /\ \A i, j \in DOMAIN sends : sends[i].ts = sends[j].ts => i = j
    /\ \A k \in DOMAIN sends :
        ~(pc = "dispatch" /\ unprocessed[idx] = sends[k].ts)
    /\ \A i \in DOMAIN results :
        results[i] = "prices" =>
            /\ i = Len(results)
            /\ fetches = i
            /\ pc \in {"eval", "dispatch", "idle"}

\* a cycle that ended with two failed dispatches and one fetch
C28_Witness ==
    /\ outcome = "processed"
    /\ pc = "idle"
    /\ fetches = 1
    /\ Len(sends) = 2
    /\ \A k \in DOMAIN sends : ~sends[k].ok

\* a fetch of this cycle has returned a price series
PricesFetched == results # <<>> /\ results[Len(results)] = "prices"

\* C29: a cycle holds no price until one of its own fetches has returned
\* the series, and it dispatches for a slot only if that series has a price
\* above price_limit for the slot; so a contract that a failed dispatch left
\* unresolved is fetched again before it is dispatched again.
C29_FreshPricesOnly ==
    /\ ~PricesFetched =>
        /\ da_prices = NoPrices
        /\ sends = <<>>
        /\ creates = <<>>
        /\ pc \notin {"eval", "dispatch"}
    /\ \A t \in Keys(active) :
        (Attempted(t) \/ CreatesFor(t) # <<>>) =>
            /\ PricesFetched
            /\ t \in DOMAIN da_prices
            /\ da_prices[t] > cfg.price_limit
            /\ start_time <= t /\ t < end_time

\* a slot whose dispatch failed at one site in an earlier cycle is being
\* dispatched again, on the price the one fetch of this cycle returned
C29_Witness ==
    /\ pc = "dispatch"
    /\ results = <<"prices">>
    /\ \E m \in Range(cfg.microgrid_ids) : <<unprocessed[idx], m>> \in accepted
    /\ da_prices[unprocessed[idx]] = cfg.price_limit + 1

\* C30: the window is refreshed once per tick, before the cycle: through
\* all fetch attempts, sleeps and dispatches of the cycle the tracked set is
\* the one update_contracts left at the tick, and every attempt's batch is
\* taken from it, however far the clock has moved on.
C30_OneRefreshPerTick ==
    /\ Keys(active) = Keys(active0)
    /\ Len(active) = Len(active0)
    /\ FetchIssued =>
        /\ Range(unprocessed) = {t \in Keys(active0) : ~Flag(active0, t)}
        /\ start_time \in Keys(active0)

\* the second attempt of a cycle fetches for the tracked set of the tick,
\* although a refresh at the present time would track other slots
C30_Witness ==
    /\ pc = "fetch"
    /\ fetches = 1
    /\ sleeps # <<>>
    /\ Keys(active) = Keys(active0)
    /\ CurrentContracts(now) # Keys(active)

\* the fetches of this cycle that raised
FailedFetches == SelectSeq(results, LAMBDA r : r = "error")

\* the cycle has started and its first fetch has not returned yet
BeforeFirstFetch == pc = "fetch" /\ fetches = 0

\* C31: every cycle starts with attempt counter 0 and backoff equal to
\* initial_backoff, whatever failures earlier cycles had: the counter counts
\* the failed fetches of this cycle alone, the sleeps of every cycle start
\* over at initial_backoff, and the cycle holds no price series of an
\* earlier one.
C31_CycleStartsFresh ==
    /\ pc \in {"idle", "fetch", "sleep", "eval", "dispatch"}
            => attempt = Len(FailedFetches)
    /\ \A k \in DOMAIN sleeps : sleeps[k] = cfg.initial_backoff * Pow2(k - 1)
    /\ BeforeFirstFetch
            => /\ attempt = 0
               /\ backoff = cfg.initial_backoff
               /\ da_prices = NoPrices

C31_Witness ==
    /\ failed_before
    /\ pc = "sleep"
    /\ attempt = 1
    /\ sleeps = <<cfg.initial_backoff>>

\* two days, in the unit of the slot starts
TwoDays == WindowDays * DayLen

\* C32: in every state the number of tracked contracts is at most two days
\* divided by the slot length (rounded up when the slot length does not
\* divide two days), and no tracked slot start is at or beyond now + 2 days,
\* with now as of the last refresh: both hold in the state every step leads
\* to, the refresh step with its own clock included.
C32_WindowBounded ==
    [][/\ (Cardinality(Keys(active')) - 1) * cfg.da_price_frequency
            < TwoDays
       /\ \A t \in Keys(active') : t < now' + TwoDays]_vars

\* a full window, tracked after slots of an earlier window were pruned
C32_Witness ==
    /\ pc = "fetch"
    /\ now >= DayLen
    /\ Cardinality(Keys(active)) * cfg.da_price_frequency = TwoDays
    /\ \A t \in Keys(active) : t < now + TwoDays

\* the position of slot t in the batch
PositionOf(t) == CHOOSE i \in InBatch : unprocessed[i] = t

\* C33: a failed dispatch does not abort the batch: once
\* _process_available_prices has returned, every contract that comes after a
\* contract whose _send_dispatch failed has been evaluated too: dispatched
\* if its price is above the limit, resolved if its price is at or below it.
C33_FailedDispatchDoesNotAbort ==
    outcome = "processed" =>
        \A k \in DOMAIN sends : \A j \in InBatch :
            (~sends[k].ok /\ j > PositionOf(sends[k].ts)
                /\ unprocessed[j] \in DOMAIN da_prices) =>
                LET t == unprocessed[j] IN
                IF da_prices[t] > cfg.price_limit
                THEN Attempted(t) /\ CreatesFor(t) # <<>>
                ELSE Flag(active, t) /\ ~Attempted(t)

\* the first contract's dispatch fails, the second one's succeeds, the third
\* one is resolved without dispatch
C33_Witness ==
    /\ outcome = "processed"
    /\ Len(unprocessed) = 3
    /\ DOMAIN da_prices = Range(unprocessed)
    /\ Len(sends) = 2
    /\ sends[1].ts = unprocessed[1] /\ ~sends[1].ok
    /\ sends[2].ts = unprocessed[2] /\ sends[2].ok
    /\ Flag(active, unprocessed[2])
    /\ da_prices[unprocessed[3]] <= cfg.price_limit
    /\ Flag(active, unprocessed[3])
    /\ ~Flag(active, unprocessed[1])

\* C34: once the flag of a tracked slot is True it stays True for as long as
\* the slot is tracked: no step of the scheduling loop, refresh included,
\* takes a flag from True back to False.
C34_FlagNeverReverts ==
    [][\A t \in Keys(active) \cap Keys(active') :
            Flag(active, t) => Flag(active', t)]_vars

\* a later cycle, after a refresh at a later time that pruned a slot: a slot
\* resolved by an earlier cycle is still tracked and still resolved, next to
\* an unresolved one
C34_Witness ==
    /\ pc = "fetch"
    /\ now > 0
    /\ 0 \notin Keys(active)
    /\ \E t \in Keys(active0) : Flag(active0, t) /\ Flag(active, t)
    /\ \E t \in Keys(active) : ~Flag(active, t)

\* the slots whose entry differs between the dicts d and e
ChangedFlags(d, e) == {t \in Keys(d) \cap Keys(e) : Flag(d, t) # Flag(e, t)}

\* one step leaves the keys of _active_contracts and their order alone and
\* changes flags only to True, only for slots of the batch that have a price
KeepsKeys ==
    /\ [i \in DOMAIN active' |-> active'[i].ts]
            = [i \in DOMAIN active |-> active[i].ts]
    /\ \A t \in ChangedFlags(active, active') :
        /\ t \in Range(unprocessed)
        /\ t \in DOMAIN da_prices
        /\ Flag(active', t)

\* C35: the steps of a cycle (fetch, evaluation, create calls, retry) never
\* add or remove a key of _active_contracts and keep the order of its keys;
\* the flags they change belong to slots of the batch of the fetch that have
\* a price, and become True. The key set changes only in update_contracts,
\* which runs between cycles.
C35_OnlyRefreshChangesKeys ==
    [][(pc \in {"fetch", "sleep", "eval", "dispatch"}) => KeepsKeys]_vars

\* a cycle that resolved one slot and left another one, without a price,
\* alone, and that still holds the keys of its tick although the clock has
\* reached a time with another window
C35_Witness ==
    /\ outcome = "processed"
    /\ fetches = 2
    /\ Keys(active) = Keys(active0)
    /\ Keys(active) # CurrentContracts(now)
    /\ \E t \in Range(unprocessed) :
        t \in DOMAIN da_prices /\ Flag(active, t) /\ ~Flag(active0, t)
    /\ \E t \in Range(unprocessed) :
        t \notin DOMAIN da_prices /\ ~Flag(active, t)

\* C36: for every accepted configuration, a contract of the batch whose
\* fetched price is above price_limit is resolved only if at least one
\* dispatch create call for its slot succeeded in this cycle.
C36_ResolvedAboveLimitWasDispatched ==
    \A i \in InBatch :
        LET t == unprocessed[i] IN
        (/\ Evaluated(i)
         /\ t \in DOMAIN da_prices
         /\ da_prices[t] > cfg.price_limit
         /\ Flag(active, t))
            => \E k \in DOMAIN creates : creates[k].ts = t /\ creates[k].ok

\* C37: every dispatch create call is for a slot that is tracked at the
\* moment of the call and whose start is not earlier than the time of the
\* call (the clock stands still from the first create call of a cycle to the
\* next tick, so `now` is the time of every create call of the cycle).
C37_NoDispatchForStartedSlot ==
    /\ \A k \in DOMAIN creates :
        creates[k].ts \in Keys(active) /\ creates[k].ts >= now
    /\ pc = "dispatch" =>
        unprocessed[idx] \in Keys(active) /\ unprocessed[idx] >= now

\* C38: a Config message that arrives while the control loop runs leaves the
\* actor running with the new config stored, and every perform call made
\* from then on compares the grid power with the new target power.
C38_ConfigUpdateTakesEffect ==
    /\ tr.at # "raised"
    /\ tr.target_power = tr.config.target_power
    /\ (tr.at = "loop" /\ tc.at = "start")
            => tc.target_power = tr.config.target_power

\* the sends the reads so far call for: a read that returned a value other
\* than the last value read before it
RECURSIVE SendsFor(_)
SendsFor(reads) ==
    IF reads = <<>> THEN <<>>
    ELSE LET before == SubSeq(reads, 1, Len(reads) - 1)
             read == reads[Len(reads)]
             values == SelectSeq(before, LAMBDA r : r.ok)
         IN IF read.ok /\ values # <<>>
                       /\ values[Len(values)].value # read.value
            THEN Append(SendsFor(before), read.value)
            ELSE SendsFor(before)

SuccessfulReads == SelectSeq(mb.reads, LAMBDA r : r.ok)

\* C39: read_modbus_register sends a value if and only if a successful read
\* returns a value other than the last successfully read one: the values
\* sent so far are those reads, in order; nothing is sent up to and
\* including the first successful read; the remembered value is that of the
\* last successful read, whatever errors came after it.
C39_ModbusChangeDetection ==
    /\ mb.sent = SendsFor(mb.reads)
    /\ Len(SuccessfulReads) <= 1 => mb.sent = <<>>
    /\ SuccessfulReads # <<>> =>
        mb.last_register_value
            = SuccessfulReads[Len(SuccessfulReads)].value
    /\ mb.first_run <=> SuccessfulReads = <<>>

\* a first read of a value other than 0 that sent nothing, an error, a read
\* of another value that was sent, an error that left the value remembered
C39_Witness ==
    /\ Len(mb.reads) = 4
    /\ mb.reads[1].ok /\ mb.reads[1].value # 0
    /\ ~mb.reads[2].ok
    /\ mb.reads[3].ok /\ mb.reads[3].value # mb.reads[1].value
    /\ ~mb.reads[4].ok
    /\ mb.sent = <<mb.reads[3].value>>
    /\ mb.last_register_value = mb.reads[3].value
====
